---- MODULE Spec2Model ----
(***************************************************************************)
(* Model of the product browser's list engine: the infinite product query  *)
(* (useInfiniteProducts), the ProductTable component with its effects      *)
(* (URL restoration, URL page sync, fallback scroll, threshold fetch, the  *)
(* scroll memory of the product drawer) and the windowing of the rows.     *)
(*                                                                         *)
(* React is modelled by its commit: Render takes the values the component  *)
(* closes over (Snapshot), and runs, in declaration order, the effects     *)
(* whose dependencies differ from the previous commit.  All effects of one *)
(* commit read the same snapshot; refs are read and written in sequence.   *)
(***************************************************************************)
EXTENDS Integers, Sequences, FiniteSets, TLC

\* ---- program constants (src/src/constants/index.ts) ----
ITEMS_PER_PAGE == 30
ROW_HEIGHT == 97
OVERSCAN == 5
FETCH_THRESHOLD == 5
URL_RESTORE_MIDDLE_OFFSET == 15
MAX_RESTORATION_ATTEMPTS == 10

\* ---- bounds of the model ----
ViewportHeight == 583
\* viewport offsets the user scrolls to in the scenarios (besides top and bottom)
ScenarioOffsets == {900, 1500, 4000}
\* the offset the user scrolls to before opening the drawer
DrawerOffsets == {900}
MaxFails == 1
MaxRetries == 1
MaxFilterChanges == 3
MaxSourceChanges == 1
MaxOpens == 1
Filters == {1, 2}
\* a collection of more pages than a restoration may fetch
LargeTotal == 400
Totals == {0, 25, 61, 95, LargeTotal}
SmallTotals == {61, 70}
ScenarioTotals == {0, 50, 61, 95}
\* totals of a collection that changes upstream between a failure and the retry
RetryTotals == {25, 61}
AllTotals == Totals \cup SmallTotals \cup ScenarioTotals
UrlPages == {1, 3, 13}
SmallUrlPages == {1, 3}
\* the Page Source when only the first filter set is ever used
Alone(t) == [f \in Filters |-> IF f = 1 THEN t ELSE 0]
\* the Page Source of the runs that switch between the filter sets
TwoFilters == [f \in Filters |-> IF f = 1 THEN 61 ELSE 70]
\* the URL page and the Page Source a run starts with
Inputs(pages, sources) == {[page |-> p, src |-> x] : p \in pages, x \in sources}
\* the URLs of the documented scenarios
Scenarios ==
  { [page |-> 10, src |-> Alone(95)], [page |-> 5, src |-> Alone(0)],
    [page |-> 5, src |-> Alone(50)], [page |-> 999, src |-> Alone(50)],
    [page |-> 1, src |-> Alone(61)] }
\* what the environment may do in one behaviour: failures and a retry, or
\* filter changes (one fewer when the run starts on page 1), or a change of
\* the collection upstream, or nothing but
\* scrolling in one of the documented scenarios, or opening the product drawer
\* while fetches may fail, or a retry after the collection changed upstream
Budgets ==
  { [fails |-> MaxFails, retries |-> MaxRetries, changes |-> 0, source |-> 0, totals |-> Totals,
     inputs |-> Inputs(UrlPages, {Alone(t) : t \in Totals \ {LargeTotal}})
                  \cup Inputs(UrlPages \ SmallUrlPages, {Alone(LargeTotal)}),
     opens |-> 0, offsets |-> {}],
    [fails |-> 0, retries |-> 0, changes |-> MaxFilterChanges, source |-> 0, totals |-> SmallTotals,
     inputs |-> Inputs(SmallUrlPages \ {1}, {TwoFilters}), opens |-> 0, offsets |-> {}],
    [fails |-> 0, retries |-> 0, changes |-> MaxFilterChanges - 1, source |-> 0, totals |-> SmallTotals,
     inputs |-> Inputs({1}, {TwoFilters}), opens |-> 0, offsets |-> {}],
    [fails |-> 0, retries |-> 0, changes |-> 0, source |-> MaxSourceChanges, totals |-> Totals,
     inputs |-> Inputs(SmallUrlPages, {Alone(t) : t \in Totals}), opens |-> 0, offsets |-> {}],
    [fails |-> 0, retries |-> 0, changes |-> 0, source |-> 0, totals |-> ScenarioTotals,
     opens |-> 0, inputs |-> Scenarios, offsets |-> ScenarioOffsets],
    [fails |-> MaxFails, retries |-> 0, changes |-> 0, source |-> 0, totals |-> SmallTotals,
     opens |-> MaxOpens, inputs |-> Inputs(SmallUrlPages, {TwoFilters}), offsets |-> DrawerOffsets],
    [fails |-> MaxFails, retries |-> MaxRetries, changes |-> 0, source |-> MaxSourceChanges,
     totals |-> RetryTotals, opens |-> 0, inputs |-> Inputs({1}, {Alone(61)}), offsets |-> {}] }

NULL == -1

Min(a, b) == IF a < b THEN a ELSE b
Max(a, b) == IF a > b THEN a ELSE b
\* Math.ceil(a / b) for a >= 0, b > 0
Ceil(a, b) == (a + b - 1) \div b

VARIABLES
  filter,          \* the filter set (query, category) the table is given
  urlPage,         \* the "page" search parameter (1 when absent)
  pageResetDue,    \* the debounced query changed; the URL still has the old page
  srcTotal,        \* Page Source: current total per filter set
  cache,           \* query cache: one infinite query per filter set
  orphans,         \* next-page requests still on the wire whose result is ignored
  isRestoringFromURLRef,
  targetScrollIndexRef,
  restorationAttemptsRef,
  rendered,        \* the values of the last commit (the effects' dependencies)
  everMounted,     \* the scroll container has been laid out at least once
  scrollTop,       \* viewport offset of the scroll container
  raf,             \* callbacks registered with requestAnimationFrame
  productId,       \* the "productId" search parameter (0 when absent): the drawer is open
  scrollOffsetRef, \* the offset saved when the drawer opened
  lastCommit,      \* what the effects of the last commit did
  hist,            \* history of the mount
  budget           \* what the environment may still do (one of Budgets)

vars == <<filter, urlPage, pageResetDue, srcTotal, cache, orphans,
          isRestoringFromURLRef, targetScrollIndexRef, restorationAttemptsRef,
          rendered, everMounted, scrollTop, raf, productId, scrollOffsetRef,
          lastCommit, hist, budget>>

\* ---- state of the hooks that are modelled on their own ----
VARIABLES
  params,          \* useURLState: the search parameters of the location
  urlOp,           \* useURLState: the last update and the parameters before it
  value,           \* useDebounce: the input of the last render
  debouncedValue,  \* useDebounce: the output
  timer,           \* useDebounce: the pending timeout
  stableFor,       \* useDebounce: ms since the input last changed (capped at the delay)
  emitted,         \* useDebounce: the last value the timeout wrote to the output
  inputChanges,    \* useDebounce: number of input changes so far
  searchInput,     \* AppContent: the text of the search field
  appSeen,         \* AppContent: what the last commit rendered
  appHist,         \* AppContent: external URL change and what happened after it
  text,            \* useTypewriter: the text to reveal
  displayedText, currentIndex, isTyping, isComplete,   \* useTypewriter: state
  typeTimer,       \* useTypewriter: the pending timeout
  typeHist         \* useTypewriter: what happened since start()

urlVars == <<params, urlOp>>
debVars == <<value, debouncedValue, timer, stableFor, emitted, inputChanges>>
appVars == <<searchInput, appSeen, appHist>>
typeVars == <<text, displayedText, currentIndex, isTyping, isComplete, typeTimer, typeHist>>

sideVars == <<urlVars, debVars, appVars, typeVars>>

\* a search parameter that is not in the URL
Absent == ""

NoParams == [q |-> Absent, category |-> Absent, productId |-> Absent, page |-> NULL]

\* the hooks modelled on their own are not in use
UrlIdle == params = NoParams /\ urlOp = [op |-> "none"]

NoTimer == [on |-> FALSE, value |-> Absent, left |-> 0]

NotEmitted == [some |-> FALSE]

DebounceIdle ==
  /\ value = Absent /\ debouncedValue = Absent /\ timer = NoTimer
  /\ stableFor = 0 /\ emitted = NotEmitted /\ inputChanges = 0

AppIdle == searchInput = Absent /\ appSeen = <<>> /\ appHist = <<>>

TypewriterIdle ==
  /\ text = <<>> /\ displayedText = <<>> /\ currentIndex = 0
  /\ isTyping = FALSE /\ isComplete = FALSE /\ typeTimer = NoTimer /\ typeHist = <<>>

SideIdle == UrlIdle /\ DebounceIdle /\ AppIdle /\ TypewriterIdle

\* ---- Page Source (fetchProducts) ----
\* the page at offset skip of the collection of filter set f, which has t items
fetchProducts(f, t, skip) ==
  [n |-> Min(ITEMS_PER_PAGE, Max(0, t - skip)), total |-> t, skip |-> skip, of |-> f]

\* ---- useInfiniteProducts ----
\* variant: a response is given to the query of the filter set on display
queryKeyOnDisplay(f) == filter

\* the query a response for filter set f belongs to: the one keyed by f
queryKey(f) == f

EmptyQuery == [pages |-> <<>>, len |-> 0, loaded |-> FALSE, fetch |-> "idle", err |-> FALSE, gen |-> 0]

\* variant: another page is always assumed to follow
getNextPageParamAlways(pages) == Len(pages) * ITEMS_PER_PAGE

\* variant: the offset is computed from the pages before the last one
getNextPageParamBehind(pages) ==
  LET loadedCap == (Len(pages) - 1) * ITEMS_PER_PAGE
  IN  IF loadedCap < pages[Len(pages)].total THEN loadedCap ELSE NULL

getNextPageParam(pages) ==
  LET loadedCap == Len(pages) * ITEMS_PER_PAGE
  IN  IF loadedCap < pages[Len(pages)].total THEN loadedCap ELSE NULL

hasNextPage(q) == q.loaded /\ Len(q.pages) > 0 /\ getNextPageParam(q.pages) # NULL

RECURSIVE SumN(_)
SumN(pages) == IF pages = <<>> THEN 0 ELSE pages[1].n + SumN(Tail(pages))

\* allProducts.length (q.len caches the flattened length of q.pages)
allProductsLength(q) == IF q.loaded THEN q.len ELSE 0

\* pages a refetch of k pages obtains from a source of t items
RECURSIVE RefetchPages(_, _, _, _)
RefetchPages(f, t, k, acc) ==
  IF Len(acc) >= k THEN acc
  ELSE IF acc # <<>> /\ getNextPageParam(acc) = NULL THEN acc
  ELSE RefetchPages(f, t, k, Append(acc, fetchProducts(f, t, IF acc = <<>> THEN 0 ELSE getNextPageParam(acc))))

\* ---- useVirtualizer ----
\* variant: a slot for the loader row is always reserved
itemCountWithLoader(len, hasNext) == len + 1

itemCount(len, hasNext) == IF hasNext THEN len + 1 ELSE len

\* const isLoaderRow = virtualItem.index >= allProducts.length
isLoaderRow(index, len) == index >= len

getTotalSize(count) == count * ROW_HEIGHT

MaxScroll(count) == Max(0, getTotalSize(count) - ViewportHeight)

\* variant: the overscan is added without looking at the count
LastItemIndexPastEnd(count, offset, measured) ==
  IF ~measured \/ count = 0 THEN NULL
  ELSE LET endIndex == Min(count - 1, Max(0, Ceil(offset + ViewportHeight, ROW_HEIGHT) - 1))
       IN  endIndex + OVERSCAN

\* index of the last virtual item (NULL when there is none)
LastItemIndex(count, offset, measured) ==
  IF ~measured \/ count = 0 THEN NULL
  ELSE LET endIndex == Min(count - 1, Max(0, Ceil(offset + ViewportHeight, ROW_HEIGHT) - 1))
       IN  Min(count - 1, endIndex + OVERSCAN)

FirstItemIndex(count, offset, measured) ==
  IF ~measured \/ count = 0 THEN NULL
  ELSE Max(0, Min(count - 1, offset \div ROW_HEIGHT) - OVERSCAN)

\* offset that scrollToIndex(index, {align: "center"}) sets
scrollToIndexOffset(count, index) ==
  LET i == Max(0, Min(index, count - 1))
  IN  Min(MaxScroll(count), Max(0, i * ROW_HEIGHT - ((ViewportHeight - ROW_HEIGHT) \div 2)))

\* ---- the values one render of ProductTable closes over ----
Snapshot ==
  LET q == cache[filter]
      len == allProductsLength(q)
      hn == hasNextPage(q)
      isLoading == ~q.loaded /\ q.fetch = "first"
      isError == q.err
      mounted == ~isLoading /\ ~isError /\ len > 0
      measured == everMounted \/ mounted
      count == itemCount(len, hn)
      off == IF mounted THEN Min(scrollTop, MaxScroll(count)) ELSE scrollTop
  IN  [filter |-> filter,
       urlPage |-> urlPage,
       isLoading |-> isLoading,
       isError |-> isError,
       hasData |-> q.loaded,
       gen |-> q.gen,
       pageCount |-> IF q.loaded THEN Len(q.pages) ELSE 0,
       firstTotal |-> IF q.loaded /\ Len(q.pages) > 0 THEN q.pages[1].total ELSE 0,
       lastTotal |-> IF q.loaded /\ Len(q.pages) > 0 THEN q.pages[Len(q.pages)].total ELSE 0,
       len |-> len,
       hasNextPage |-> hn,
       isFetchingNextPage |-> (q.fetch = "next"),
       productId |-> productId,
       mounted |-> mounted,
       count |-> count,
       first |-> FirstItemIndex(count, off, measured),
       last |-> LastItemIndex(count, off, measured)]

NoRender == [filter |-> 0]

\* ---- dependency arrays ----
RestoreDeps(S) == <<S.isLoading, S.urlPage, S.filter, S.hasData, S.pageCount, S.gen,
                    S.hasNextPage, S.isFetchingNextPage, S.len>>
SyncDeps(S) == <<S.hasData, S.pageCount, S.urlPage>>
FallbackDeps(S) == <<S.len, S.isFetchingNextPage, S.hasNextPage>>
ThresholdDeps(S) == <<S.hasNextPage, S.len, S.isFetchingNextPage, S.count, S.first, S.last>>
\* variant: the drawer's effect also runs when the loaded items change
OverlayDepsWithItems(S) == <<S.productId, S.len>>

OverlayDeps(S) == <<S.productId>>

\* the inputs of the threshold rule: the rendered range, the loaded count, hasMore
ThresholdInputs(S) == <<S.filter, S.first, S.last, S.len, S.hasNextPage>>

Changed(old, new) == rendered = NoRender \/ old # new

\* ---- effects: r carries the refs and what the commit has done so far ----
StartOfCommit ==
  [restoring |-> isRestoringFromURLRef,
   target |-> targetScrollIndexRef,
   attempts |-> restorationAttemptsRef,
   saved |-> scrollOffsetRef,
   log |-> <<>>]

Ev(e, by, index) == [e |-> e, by |-> by, index |-> index]

Did(r, e) == [r EXCEPT !.log = Append(@, e)]

\* variant: the safety valve clears the flag but leaves the stored target
AbortRestorationKeepTarget(r) ==
  Did([r EXCEPT !.restoring = FALSE], Ev("abort", "restore", NULL))

\* Safety valve: stop after too many attempts
AbortRestoration(r) ==
  Did([r EXCEPT !.target = NULL, !.restoring = FALSE], Ev("abort", "restore", NULL))

\* variant: the end of the restoration leaves the stored target
FinalizeKeepTarget(r, by) ==
  Did([r EXCEPT !.restoring = FALSE], Ev("finalize", by, NULL))

\* targetScrollIndexRef.current = null; isRestoringFromURLRef.current = false
Finalize(r, by) ==
  Did([r EXCEPT !.target = NULL, !.restoring = FALSE], Ev("finalize", by, NULL))

targetPageOf(S) == Min(S.urlPage, Ceil(S.firstTotal, ITEMS_PER_PAGE))

\* variant: the target is not clamped to the loaded items
SafeScrollIndexUnclamped(target, len) == Max(0, target)

\* Math.max(0, Math.min(target, allProducts.length - 1))
SafeScrollIndex(target, len) == Max(0, Min(target, len - 1))

\* variant: the safety valve allows one attempt more
ExceedsAttemptsLate(attempts) == attempts > MAX_RESTORATION_ATTEMPTS + 1

\* restorationAttemptsRef.current > MAX_RESTORATION_ATTEMPTS
ExceedsAttempts(attempts) == attempts > MAX_RESTORATION_ATTEMPTS

\* Load pages from URL on initial mount
RestoreEffect(S, r) ==
  IF ~(~S.isLoading /\ S.urlPage > 1) THEN r
  ELSE
    LET currentPage == S.pageCount
        totalProducts == S.firstTotal
        targetPage == targetPageOf(S)
        idealIndex == (targetPage - 1) * ITEMS_PER_PAGE + URL_RESTORE_MIDDLE_OFFSET
        maxSafeIndex == IF totalProducts > 0 THEN Min(idealIndex, totalProducts - 1) ELSE idealIndex
    IN
    IF currentPage < targetPage /\ S.hasNextPage /\ ~S.isFetchingNextPage
    THEN
      LET a == IF ~r.restoring
               THEN Did([r EXCEPT !.restoring = TRUE, !.attempts = 0, !.target = maxSafeIndex],
                        Ev("activate", "restore", maxSafeIndex))
               ELSE r
          b == [a EXCEPT !.attempts = @ + 1]
      IN  IF ExceedsAttempts(b.attempts)
          THEN AbortRestoration(b)
          ELSE Did(b, Ev("fetch", "restore", NULL))
    ELSE IF currentPage >= targetPage \/ ~S.hasNextPage
    THEN
      IF r.restoring /\ r.target # NULL
      THEN
        LET safeScrollIndex == SafeScrollIndex(r.target, S.len)
            c == Finalize(r, "restore")
        IN  IF safeScrollIndex >= 0 /\ S.len > 0
            THEN Did(c, Ev("scroll", "restore", safeScrollIndex))
            ELSE c
      ELSE r
    ELSE r

\* Update URL page when data changes
SyncEffect(S, r) ==
  IF ~r.restoring /\ S.hasData /\ S.pageCount # 0 /\ S.pageCount # S.urlPage
  THEN Did(r, Ev("page", "sync", S.pageCount))
  ELSE r

\* variant: the fallback is content with a target a few rows past the loaded items
hasEnoughProductsNearly(len, target) == len + FETCH_THRESHOLD >= target

\* Check if we have enough products
hasEnoughProducts(len, target) == len >= target

\* Restore scroll position after loading from URL (fallback mechanism)
FallbackEffect(S, r) ==
  IF r.target # NULL /\ ~S.isFetchingNextPage
  THEN
    LET canLoadMore == S.hasNextPage
    IN  IF hasEnoughProducts(S.len, r.target) \/ ~canLoadMore
        THEN
          LET scrollIndex == SafeScrollIndex(r.target, S.len)
              c == Finalize(r, "fallback")
          IN  IF scrollIndex >= 0 /\ S.len > 0
              THEN Did(c, Ev("scroll", "fallback", scrollIndex))
              ELSE c
        ELSE r
  ELSE r

\* variant: the next page is fetched wherever the list is scrolled to
ThresholdEffectAnywhere(S, r) ==
  IF S.last = NULL THEN r
  ELSE IF S.hasNextPage /\ ~S.isFetchingNextPage
       THEN Did(r, Ev("fetch", "threshold", NULL))
       ELSE r

\* Fetch more data when scrolling near the end
ThresholdEffect(S, r) ==
  IF S.last = NULL THEN r
  ELSE IF S.last >= S.len - FETCH_THRESHOLD /\ S.hasNextPage /\ ~S.isFetchingNextPage
       THEN Did(r, Ev("fetch", "threshold", NULL))
       ELSE r

\* parentRef.current?.scrollTop || 0 at the time the effects of the commit of S run
ParentScrollTop(S) == IF S.mounted THEN Min(scrollTop, MaxScroll(S.count)) ELSE 0

\* variant: the closing restores whatever offset is stored, also 0
OverlayEffectAnyOffset(S, r) ==
  IF S.productId # 0
  THEN Did([r EXCEPT !.saved = ParentScrollTop(S)], Ev("save", "overlay", ParentScrollTop(S)))
  ELSE Did(r, Ev("restore", "overlay", NULL))

\* Restore scroll position when drawer closes
OverlayEffect(S, r) ==
  IF S.productId # 0
  THEN Did([r EXCEPT !.saved = ParentScrollTop(S)], Ev("save", "overlay", ParentScrollTop(S)))
  ELSE IF r.saved > 0
       THEN Did(r, Ev("restore", "overlay", NULL))
       ELSE r

Effects(S) ==
  LET r0 == StartOfCommit
      r1 == IF Changed(RestoreDeps(rendered), RestoreDeps(S)) THEN RestoreEffect(S, r0) ELSE r0
      r2 == IF Changed(SyncDeps(rendered), SyncDeps(S)) THEN SyncEffect(S, r1) ELSE r1
      r3 == IF Changed(FallbackDeps(rendered), FallbackDeps(S)) THEN FallbackEffect(S, r2) ELSE r2
      r4 == IF Changed(ThresholdDeps(rendered), ThresholdDeps(S)) THEN ThresholdEffect(S, r3) ELSE r3
      r5 == IF Changed(OverlayDeps(rendered), OverlayDeps(S)) THEN OverlayEffect(S, r4) ELSE r4
  IN  r5

\* ---- what a commit did ----
Events(log, e) == {i \in 1..Len(log) : log[i].e = e}
Count(log, e) == Cardinality(Events(log, e))
Has(log, e) == Events(log, e) # {}
HasBy(log, e, by) == \E i \in Events(log, e) : log[i].by = by

\* the page the URL is left with after the onPageChange calls of a commit
PageAfter(log, page) ==
  IF Has(log, "page")
  THEN LET i == CHOOSE i \in Events(log, "page") : \A j \in Events(log, "page") : j <= i
       IN  IF log[i].index > 1 THEN log[i].index ELSE 1
  ELSE page

\* the target index the last activation of a commit stored
ActivatedTarget(log) ==
  LET i == CHOOSE i \in Events(log, "activate") : \A j \in Events(log, "activate") : j <= i
  IN  log[i].index

ScrollCallbacks(log, S) ==
  LET F[i \in 0..Len(log)] ==
        IF i = 0 THEN <<>>
        ELSE IF log[i].e = "scroll"
             THEN Append(F[i - 1], [kind |-> "scroll", index |-> log[i].index, filter |-> S.filter])
             ELSE IF log[i].e = "restore"
                  THEN Append(F[i - 1], [kind |-> "offset", index |-> NULL, filter |-> S.filter])
                  ELSE F[i - 1]
  IN  F[Len(log)]

\* fetchNextPage(): a fetch already running is cancelled silently (its request
\* stays on the wire, its result is ignored) and a new one is started
fetchNextPage(q) == [q EXCEPT !.fetch = "next"]

NextRequestsInFlight(f) == (IF cache[f].fetch = "next" THEN 1 ELSE 0) + orphans[f]

\* the query of a filter set that gets an observer: fetch when there is no data
Observe(q) == IF ~q.loaded /\ q.fetch = "idle" THEN [q EXCEPT !.fetch = "first", !.err = FALSE] ELSE q

\* every update has been rendered: React has nothing left to commit
Settled == rendered = Snapshot

\* history: a request for offset off of filter set f has been sent
Requested(h, f, off) ==
  [h EXCEPT !.lastReq[f] = off,
            !.rerequest = @ \/ (h.lastReq[f] # NULL /\ off <= h.lastReq[f])]

\* history: the query of filter set f got an observer (a first request, if it starts one)
Observed(h, f) ==
  IF Observe(cache[f]) # cache[f] THEN Requested(h, f, 0) ELSE h

Init ==
  /\ filter = 1
  /\ pageResetDue = FALSE
  /\ cache = [f \in Filters |-> IF f = 1 THEN Observe(EmptyQuery) ELSE EmptyQuery]
  /\ orphans = [f \in Filters |-> 0]
  /\ isRestoringFromURLRef = FALSE
  /\ targetScrollIndexRef = NULL
  /\ restorationAttemptsRef = 0
  /\ rendered = NoRender
  /\ everMounted = FALSE
  /\ scrollTop = 0
  /\ raf = <<>>
  /\ productId = 0
  /\ scrollOffsetRef = 0
  /\ lastCommit = <<>>
  /\ budget \in Budgets
  /\ SideIdle
  /\ \E i \in budget.inputs : urlPage = i.page /\ srcTotal = i.src
  /\ hist = [initPage |-> urlPage, activations |-> 0, scrolls |-> 0, aborts |-> 0,
             fails |-> 0, retries |-> 0, filterChanges |-> 0, sourceChanges |-> 0,
             restoreFilter |-> 0, target |-> NULL, scrollsSinceAbort |-> 0,
             activationsSinceAbort |-> 0, movedSinceAbort |-> FALSE,
             autoRefetch |-> FALSE, failedPending |-> FALSE, busyAtCommit |-> FALSE,
             lateResolved |-> FALSE, rerequest |-> FALSE, thresholdFetches |-> 0,
             thresholdRan |-> FALSE, opens |-> 0, openedAt |-> 0, quiet |-> FALSE, restoredTo |-> NULL,
             restoresSinceSave |-> 0, restoreFetches |-> 0, scrollsSinceActivation |-> 0,
             lastReq |-> [f \in Filters |-> IF f = 1 THEN 0 ELSE NULL]]

\* one commit of ProductTable (and of AppContent, whose effect runs after the child's)
Render ==
  LET S == Snapshot
      r == Effects(S)
      nf == Count(r.log, "fetch")
      q == cache[filter]
  IN
  /\ S # rendered
  /\ rendered' = S
  /\ everMounted' = (everMounted \/ S.mounted)
  /\ scrollTop' = IF S.mounted THEN Min(scrollTop, MaxScroll(S.count)) ELSE scrollTop
  /\ isRestoringFromURLRef' = r.restoring
  /\ targetScrollIndexRef' = r.target
  /\ restorationAttemptsRef' = r.attempts
  /\ scrollOffsetRef' = r.saved
  /\ cache' = IF nf > 0 THEN [cache EXCEPT ![filter] = fetchNextPage(q)] ELSE cache
  /\ orphans' = IF nf > 0
                THEN [orphans EXCEPT ![filter] = @ + (nf - 1) + (IF q.fetch = "next" THEN 1 ELSE 0)]
                ELSE orphans
  /\ urlPage' = IF pageResetDue THEN 1 ELSE PageAfter(r.log, urlPage)
  /\ pageResetDue' = FALSE
  /\ raf' = raf \o ScrollCallbacks(r.log, S)
  /\ lastCommit' = r.log
  /\ hist' = [(IF nf > 0 THEN Requested(hist, filter, getNextPageParam(q.pages)) ELSE hist) EXCEPT
       !.rerequest = @ \/ nf > 1,
       !.thresholdRan = Changed(ThresholdDeps(rendered), ThresholdDeps(S)),
       !.thresholdFetches =
          (IF rendered # NoRender /\ ThresholdInputs(rendered) = ThresholdInputs(S) THEN @ ELSE 0)
          + (IF HasBy(r.log, "fetch", "threshold") THEN 1 ELSE 0),
       !.restoresSinceSave = IF Has(r.log, "save") THEN 0 ELSE @ + Count(r.log, "restore"),
       !.restoreFetches = (IF Has(r.log, "activate") THEN 0 ELSE @)
                          + (IF HasBy(r.log, "fetch", "restore") THEN 1 ELSE 0),
       !.scrollsSinceActivation = (IF Has(r.log, "activate") THEN 0 ELSE @) + Count(r.log, "scroll"),
       !.activations = @ + Count(r.log, "activate"),
       !.scrolls = @ + Count(r.log, "scroll"),
       !.aborts = @ + Count(r.log, "abort"),
       !.restoreFilter = IF Has(r.log, "activate") THEN S.filter ELSE @,
       !.target = IF Has(r.log, "activate") THEN ActivatedTarget(r.log) ELSE @,
       !.movedSinceAbort = @ /\ ~Has(r.log, "abort"),
       !.scrollsSinceAbort = IF Has(r.log, "abort") THEN 0 ELSE @ + Count(r.log, "scroll"),
       !.activationsSinceAbort = IF Has(r.log, "abort") THEN 0 ELSE @ + Count(r.log, "activate"),
       !.autoRefetch = @ \/ (hist.failedPending /\ nf > 0),
       !.failedPending = @ /\ nf = 0,
       !.busyAtCommit = (q.fetch # "idle" \/ orphans[filter] > 0)]
  /\ UNCHANGED <<filter, srcTotal, productId, budget>>
  /\ UNCHANGED sideVars

\* a response of the Page Source arrives for the fetch the query is running;
\* t is the total of the collection at that moment
FetchSucceed(f, t) ==
  LET q == cache[f]
  IN
  /\ q.fetch # "idle"
  /\ t \in budget.totals
  /\ t # srcTotal[f] => hist.sourceChanges < budget.source
  /\ Settled
  /\ srcTotal' = [srcTotal EXCEPT ![f] = t]
  /\ cache' = [cache EXCEPT ![queryKey(f)] =
       CASE q.fetch = "first" ->
              [q EXCEPT !.pages = <<fetchProducts(f, t, 0)>>, !.len = fetchProducts(f, t, 0).n,
                        !.loaded = TRUE, !.fetch = "idle", !.err = FALSE]
         [] q.fetch = "next" ->
              [q EXCEPT !.pages = Append(@, fetchProducts(f, t, getNextPageParam(q.pages))),
                        !.len = @ + fetchProducts(f, t, getNextPageParam(q.pages)).n,
                        !.fetch = "idle", !.err = FALSE]
         [] q.fetch = "refetch" ->
              [q EXCEPT !.pages = RefetchPages(f, t, Len(q.pages), <<>>),
                        !.len = SumN(RefetchPages(f, t, Len(q.pages), <<>>)), !.gen = @ + 1,
                        !.fetch = "idle", !.err = FALSE]]
  /\ hist' = [hist EXCEPT !.failedPending = IF f = filter THEN FALSE ELSE @,
                          !.sourceChanges = IF t # srcTotal[f] THEN @ + 1 ELSE @,
                          !.lateResolved = @ \/ f # filter,
                          !.lastReq[f] = IF q.fetch = "refetch"
                                         THEN (Len(RefetchPages(f, t, Len(q.pages), <<>>)) - 1) * ITEMS_PER_PAGE
                                         ELSE @]
  /\ UNCHANGED <<filter, urlPage, pageResetDue, orphans, isRestoringFromURLRef,
                 targetScrollIndexRef, restorationAttemptsRef, rendered, everMounted,
                 scrollTop, raf, lastCommit, productId, scrollOffsetRef, budget>>
  /\ UNCHANGED sideVars

\* variant: the rejected fetch leaves the query fetching
FetchFailStaysFetching(f) ==
  LET q == cache[f]
  IN
  /\ q.fetch # "idle"
  /\ hist.fails < budget.fails
  /\ Settled
  /\ cache' = [cache EXCEPT ![f] = [q EXCEPT !.err = TRUE]]
  /\ hist' = [hist EXCEPT !.fails = @ + 1,
                          !.failedPending = IF f = filter /\ q.fetch = "next" THEN TRUE ELSE @]
  /\ UNCHANGED <<filter, urlPage, pageResetDue, srcTotal, orphans, isRestoringFromURLRef,
                 targetScrollIndexRef, restorationAttemptsRef, rendered, everMounted,
                 scrollTop, raf, lastCommit, productId, scrollOffsetRef, budget>>
  /\ UNCHANGED sideVars

\* the fetch the query is running is rejected (response not ok, retries used up)
FetchFail(f) ==
  LET q == cache[f]
  IN
  /\ q.fetch # "idle"
  /\ hist.fails < budget.fails
  /\ Settled
  /\ cache' = [cache EXCEPT ![f] = [q EXCEPT !.fetch = "idle", !.err = TRUE]]
  /\ hist' = [hist EXCEPT !.fails = @ + 1,
                          !.failedPending = IF f = filter /\ q.fetch = "next" THEN TRUE ELSE @]
  /\ UNCHANGED <<filter, urlPage, pageResetDue, srcTotal, orphans, isRestoringFromURLRef,
                 targetScrollIndexRef, restorationAttemptsRef, rendered, everMounted,
                 scrollTop, raf, lastCommit, productId, scrollOffsetRef, budget>>
  /\ UNCHANGED sideVars

\* a cancelled request settles; its result is dropped
OrphanSettle(f) ==
  /\ orphans[f] > 0
  /\ Settled
  /\ orphans' = [orphans EXCEPT ![f] = @ - 1]
  /\ UNCHANGED <<filter, urlPage, pageResetDue, srcTotal, cache, isRestoringFromURLRef,
                 targetScrollIndexRef, restorationAttemptsRef, rendered, everMounted,
                 scrollTop, raf, lastCommit, hist, productId, scrollOffsetRef, budget>>
  /\ UNCHANGED sideVars

\* ErrorState's retry button: refetch()
Retry ==
  LET q == cache[filter]
  IN
  /\ rendered # NoRender
  /\ rendered.filter = filter
  /\ rendered.isError
  /\ productId = 0
  /\ hist.retries < budget.retries
  /\ Settled
  /\ cache' = [cache EXCEPT ![filter] =
       IF q.loaded THEN [q EXCEPT !.fetch = "refetch"]
       ELSE [q EXCEPT !.fetch = "first", !.err = FALSE]]
  /\ orphans' = [orphans EXCEPT ![filter] = @ + (IF q.fetch = "next" THEN 1 ELSE 0)]
  /\ hist' = [Requested(hist, filter, 0) EXCEPT !.retries = @ + 1, !.failedPending = FALSE, !.quiet = FALSE]
  /\ UNCHANGED <<filter, urlPage, pageResetDue, srcTotal, isRestoringFromURLRef,
                 targetScrollIndexRef, restorationAttemptsRef, rendered, everMounted,
                 scrollTop, raf, lastCommit, productId, scrollOffsetRef, budget>>
  /\ UNCHANGED sideVars

\* the user scrolls the table
UserScroll(o) ==
  /\ rendered # NoRender
  /\ rendered.filter = filter
  /\ rendered.mounted
  /\ productId = 0
  /\ o # scrollTop
  /\ o <= MaxScroll(rendered.count)
  /\ Settled
  /\ scrollTop' = o
  /\ hist' = [hist EXCEPT !.quiet = FALSE]
  /\ UNCHANGED <<filter, urlPage, pageResetDue, srcTotal, cache, orphans, isRestoringFromURLRef,
                 targetScrollIndexRef, restorationAttemptsRef, rendered, everMounted,
                 raf, lastCommit, productId, scrollOffsetRef, budget>>
  /\ UNCHANGED sideVars

\* CategoryFilter: updateCategory sets the category and deletes the page at once
CategoryChange(f) ==
  /\ f # filter
  /\ productId = 0
  /\ hist.filterChanges < budget.changes
  /\ Settled
  /\ filter' = f
  /\ urlPage' = 1
  /\ pageResetDue' = FALSE
  /\ cache' = [cache EXCEPT ![f] = Observe(@)]
  /\ hist' = [Observed(hist, f) EXCEPT !.filterChanges = @ + 1, !.failedPending = FALSE,
                                      !.quiet = @ /\ productId # 0]
  /\ UNCHANGED <<srcTotal, orphans, isRestoringFromURLRef, targetScrollIndexRef,
                 restorationAttemptsRef, rendered, everMounted, scrollTop, raf, lastCommit, productId, scrollOffsetRef, budget>>
  /\ UNCHANGED sideVars

\* SearchBar: the debounced query reaches the table one commit before
\* AppContent's effect calls updateQuery, which deletes the page
QueryChange(f) ==
  /\ f # filter
  /\ hist.filterChanges < budget.changes
  /\ Settled
  /\ filter' = f
  /\ pageResetDue' = TRUE
  /\ cache' = [cache EXCEPT ![f] = Observe(@)]
  /\ hist' = [Observed(hist, f) EXCEPT !.filterChanges = @ + 1, !.failedPending = FALSE,
                                      !.quiet = @ /\ productId # 0]
  /\ UNCHANGED <<urlPage, srcTotal, orphans, isRestoringFromURLRef, targetScrollIndexRef,
                 restorationAttemptsRef, rendered, everMounted, scrollTop, raf, lastCommit, productId, scrollOffsetRef, budget>>
  /\ UNCHANGED sideVars

\* a row is clicked: updateProductId(String(id)) opens the drawer
OpenDrawer ==
  /\ rendered # NoRender
  /\ rendered.filter = filter
  /\ rendered.mounted
  /\ productId = 0
  /\ hist.opens < budget.opens
  /\ Settled
  /\ productId' = 1
  /\ hist' = [hist EXCEPT !.opens = @ + 1, !.openedAt = scrollTop, !.quiet = FALSE, !.restoredTo = NULL]
  /\ UNCHANGED <<filter, urlPage, pageResetDue, srcTotal, cache, orphans, isRestoringFromURLRef,
                 targetScrollIndexRef, restorationAttemptsRef, rendered, everMounted,
                 scrollTop, raf, scrollOffsetRef, lastCommit, budget>>
  /\ UNCHANGED sideVars

\* the drawer is closed: updateProductId("")
CloseDrawer ==
  /\ productId # 0
  /\ Settled
  /\ productId' = 0
  /\ hist' = [hist EXCEPT !.quiet = TRUE]
  /\ UNCHANGED <<filter, urlPage, pageResetDue, srcTotal, cache, orphans, isRestoringFromURLRef,
                 targetScrollIndexRef, restorationAttemptsRef, rendered, everMounted,
                 scrollTop, raf, scrollOffsetRef, lastCommit, budget>>
  /\ UNCHANGED sideVars

\* offset after one callback has run: scrollToIndex(index), or the drawer's
\* parentRef.current.scrollTop = scrollOffsetRef.current
RunCallback(cb, off) ==
  IF ~rendered.mounted THEN off
  ELSE IF cb.kind = "scroll" THEN scrollToIndexOffset(rendered.count, cb.index)
  ELSE Min(scrollOffsetRef, MaxScroll(rendered.count))

\* offsets after each of the callbacks of one animation frame has run
OffsetsAfter(cbs, off) ==
  LET F[i \in 0..Len(cbs)] == IF i = 0 THEN off ELSE RunCallback(cbs[i], F[i - 1])
  IN  [i \in 1..Len(cbs) |-> F[i]]

\* offset after the callbacks of one animation frame have run
RunCallbacks(cbs, off) == IF cbs = <<>> THEN off ELSE OffsetsAfter(cbs, off)[Len(cbs)]

\* offset right after the drawer's last callback of the frame (h when there is none)
RestoredTo(cbs, off, h) ==
  LET I == {i \in 1..Len(cbs) : cbs[i].kind = "offset"}
  IN  IF I = {} THEN h
      ELSE OffsetsAfter(cbs, off)[CHOOSE i \in I : \A j \in I : j <= i]

\* the next animation frame: the registered callbacks run
Frame ==
  /\ raf # <<>>
  /\ Settled
  /\ scrollTop' = RunCallbacks(raf, scrollTop)
  /\ raf' = <<>>
  /\ hist' = [hist EXCEPT !.movedSinceAbort = @ \/ rendered.mounted,
                          !.restoredTo = IF hist.quiet THEN RestoredTo(raf, scrollTop, @) ELSE @]
  /\ UNCHANGED <<filter, urlPage, pageResetDue, srcTotal, cache, orphans, isRestoringFromURLRef,
                 targetScrollIndexRef, restorationAttemptsRef, rendered, everMounted,
                 productId, scrollOffsetRef, lastCommit, budget>>
  /\ UNCHANGED sideVars

ScrollChoices == {0, MaxScroll(IF rendered = NoRender THEN 0 ELSE rendered.count)} \cup budget.offsets

Next ==
  \/ Render
  \/ \E f \in Filters, t \in AllTotals : FetchSucceed(f, t)
  \/ \E f \in Filters : FetchFail(f)
  \/ \E f \in Filters : OrphanSettle(f)
  \/ Retry
  \/ \E o \in ScrollChoices : UserScroll(o)
  \/ \E f \in Filters : CategoryChange(f)
  \/ \E f \in Filters : QueryChange(f)
  \/ Frame
  \/ OpenDrawer
  \/ CloseDrawer

Spec == Init /\ [][Next]_vars

\* ---- useURLState (modelled on its own) ----
\* the table is not in use
TableIdle ==
  /\ filter = 1 /\ urlPage = 1 /\ pageResetDue = FALSE
  /\ srcTotal = [f \in Filters |-> 0]
  /\ cache = [f \in Filters |-> EmptyQuery]
  /\ orphans = [f \in Filters |-> 0]
  /\ isRestoringFromURLRef = FALSE /\ targetScrollIndexRef = NULL /\ restorationAttemptsRef = 0
  /\ rendered = NoRender /\ everMounted = FALSE /\ scrollTop = 0 /\ raf = <<>>
  /\ productId = 0 /\ scrollOffsetRef = 0 /\ lastCommit = <<>>
  /\ hist = <<>> /\ budget = <<>>

QueryValues == {Absent, "phone", "lap"}
CategoryValues == {Absent, "beauty", "laptops"}
ProductIdValues == {Absent, "7"}
PageValues == {NULL, 1, 2, 3}

\* variant: the page is kept when the search changes
updateQueryKeepPage(ps, q) == [ps EXCEPT !.q = q]

\* params.set("q", q) or params.delete("q"); params.delete("page")
updateQuery(ps, q) == [ps EXCEPT !.q = q, !.page = NULL]

\* params.set("category", cat) or params.delete("category"); params.delete("page")
updateCategory(ps, cat) == [ps EXCEPT !.category = cat, !.page = NULL]

\* params.set("productId", id) or params.delete("productId")
updateProductId(ps, id) == [ps EXCEPT !.productId = id]

\* params.set("page", String(pageNum)) when pageNum > 1, else params.delete("page")
updatePage(ps, pageNum) == [ps EXCEPT !.page = IF pageNum > 1 THEN pageNum ELSE NULL]

InitURL ==
  /\ TableIdle /\ DebounceIdle /\ AppIdle /\ TypewriterIdle
  /\ params \in [q : QueryValues, category : CategoryValues, productId : ProductIdValues,
                  page : PageValues \ {1}]
  /\ urlOp = [op |-> "none"]

UrlUpdate(op, arg, new) ==
  /\ params' = new
  /\ urlOp' = [op |-> op, arg |-> arg, before |-> params]
  /\ UNCHANGED <<vars, debVars, appVars, typeVars>>

UpdateQuery == \E q \in QueryValues : UrlUpdate("updateQuery", q, updateQuery(params, q))
UpdateCategory == \E c \in CategoryValues : UrlUpdate("updateCategory", c, updateCategory(params, c))
UpdateProductId == \E i \in ProductIdValues : UrlUpdate("updateProductId", i, updateProductId(params, i))
UpdatePage == \E n \in PageValues \ {NULL} : UrlUpdate("updatePage", n, updatePage(params, n))

NextURL ==
  \/ UpdateQuery
  \/ UpdateCategory
  \/ UpdateProductId
  \/ UpdatePage

SpecURL == InitURL /\ [][NextURL]_urlVars

\* ---- useDebounce (modelled on its own) ----
DEBOUNCE_DELAY == 300

\* ms of clock between two looks at the timeouts
ClockStep == 100

MaxInputChanges == 3

\* variant: the effect's cleanup does not clear the pending timeout
DebounceEffectNoCleanup(t, old, new) ==
  IF t.on THEN t
  ELSE IF old # new THEN [on |-> TRUE, value |-> new, left |-> DEBOUNCE_DELAY] ELSE t

\* useEffect(..., [value, delay]): when value changed, the cleanup clears the
\* pending timeout and setTimeout(() => setDebouncedValue(value), delay) starts
DebounceEffect(t, old, new) ==
  IF old # new THEN [on |-> TRUE, value |-> new, left |-> DEBOUNCE_DELAY] ELSE t

\* the effect of the mount
DebounceMount(v) == [on |-> TRUE, value |-> v, left |-> DEBOUNCE_DELAY]

\* the clock advances while a timeout waits
DebounceClock ==
  /\ timer.on /\ timer.left > 0
  /\ timer' = [timer EXCEPT !.left = Max(0, @ - ClockStep)]
  /\ stableFor' = Min(DEBOUNCE_DELAY, stableFor + ClockStep)

\* the timeout runs: setDebouncedValue(value)
DebounceTimeout ==
  /\ timer.on /\ timer.left = 0
  /\ debouncedValue' = timer.value
  /\ emitted' = [some |-> TRUE, value |-> timer.value, input |-> value,
                  stable |-> stableFor, was |-> debouncedValue]
  /\ timer' = NoTimer

InitDebounce ==
  /\ TableIdle /\ UrlIdle /\ AppIdle /\ TypewriterIdle
  /\ value \in QueryValues
  /\ debouncedValue = value
  /\ timer = DebounceMount(value)
  /\ stableFor = 0 /\ emitted = NotEmitted /\ inputChanges = 0

\* the hook is rendered with another input
DebRender ==
  \E v \in QueryValues \ {value} :
    /\ inputChanges < MaxInputChanges
    /\ value' = v
    /\ timer' = DebounceEffect(timer, value, v)
    /\ stableFor' = 0
    /\ inputChanges' = inputChanges + 1
    /\ UNCHANGED <<debouncedValue, emitted>>
    /\ UNCHANGED <<vars, urlVars, appVars, typeVars>>

DebClock ==
  /\ DebounceClock
  /\ UNCHANGED <<value, debouncedValue, emitted, inputChanges>>
  /\ UNCHANGED <<vars, urlVars, appVars, typeVars>>

DebTimeout ==
  /\ DebounceTimeout
  /\ UNCHANGED <<value, stableFor, inputChanges>>
  /\ UNCHANGED <<vars, urlVars, appVars, typeVars>>

NextDebounce ==
  \/ DebRender
  \/ DebClock
  \/ DebTimeout

SpecDebounce == InitDebounce /\ [][NextDebounce]_debVars

\* the browser runs a timeout that is due, and time passes
FairSpecDebounce == SpecDebounce /\ WF_debVars(DebClock) /\ WF_debVars(DebTimeout)

\* ---- useTypewriter (modelled on its own) ----
TYPEWRITER_SPEED == 30
TYPEWRITER_PUNCTUATION_DELAY == 150

\* ms of clock between two looks at the typewriter's timeout
TypeClockStep == 30

MaxStarts == 3

\* texts as sequences of characters
Texts == { <<>>, <<"H", "i">>, <<"N", "o", ",", "w">>, <<"O", "k", ".", "A", "!">> }

\* [".", "!", "?", ","].includes(currentChar)
isPunctuation(c) == c \in {".", "!", "?", ","}

\* const delay = isPunctuation ? punctuationDelay : speed
delayOf(c) == IF isPunctuation(c) THEN TYPEWRITER_PUNCTUATION_DELAY ELSE TYPEWRITER_SPEED

\* variant: the effect starts no timeout for the last character
TypeEffectStopsEarly(txt, idx, typing) ==
  IF ~typing \/ idx >= Len(txt) - 1 THEN NoTimer
  ELSE [on |-> TRUE, value |-> txt[idx + 1], left |-> delayOf(txt[idx + 1])]

\* the effect: the cleanup clears the pending timeout; when typing and
\* currentIndex < text.length a timeout for text[currentIndex] is started
TypeEffect(txt, idx, typing) ==
  IF ~typing \/ idx >= Len(txt) THEN NoTimer
  ELSE [on |-> TRUE, value |-> txt[idx + 1], left |-> delayOf(txt[idx + 1])]

\* variant: start() leaves the displayed text as it is
StartStateKeepsText ==
  [displayedText |-> displayedText, currentIndex |-> 0, isComplete |-> FALSE, isTyping |-> TRUE]

\* start(): setDisplayedText(""); setCurrentIndex(0); setIsComplete(false); setIsTyping(true)
StartState ==
  [displayedText |-> <<>>, currentIndex |-> 0, isComplete |-> FALSE, isTyping |-> TRUE]

\* reset(): the same with setIsTyping(false)
ResetState ==
  [displayedText |-> <<>>, currentIndex |-> 0, isComplete |-> FALSE, isTyping |-> FALSE]

InitTypewriter ==
  /\ TableIdle /\ UrlIdle /\ DebounceIdle /\ AppIdle
  /\ text \in Texts
  /\ displayedText = <<>> /\ currentIndex = 0
  /\ isTyping = FALSE /\ isComplete = FALSE
  /\ typeTimer = NoTimer
  /\ typeHist = [call |-> "none", starts |-> 0]

\* the commit of a state and the effect that follows it
TypeCommit(st) ==
  /\ displayedText' = st.displayedText
  /\ currentIndex' = st.currentIndex
  /\ isComplete' = st.isComplete
  /\ isTyping' = st.isTyping
  /\ typeTimer' =
       IF st.currentIndex = currentIndex /\ st.isTyping = isTyping THEN typeTimer
       ELSE TypeEffect(text, st.currentIndex, st.isTyping)
  /\ UNCHANGED text
  /\ UNCHANGED <<vars, urlVars, debVars, appVars>>

TypeStart ==
  /\ typeHist.starts < MaxStarts
  /\ TypeCommit(StartState)
  /\ typeHist' = [call |-> "start", starts |-> typeHist.starts + 1]

TypeReset ==
  /\ typeHist.call = "start"
  /\ TypeCommit(ResetState)
  /\ typeHist' = [typeHist EXCEPT !.call = "reset"]

\* the clock advances while the timeout waits
TypeClock ==
  /\ typeTimer.on /\ typeTimer.left > 0
  /\ typeTimer' = [typeTimer EXCEPT !.left = Max(0, @ - TypeClockStep)]
  /\ UNCHANGED <<text, displayedText, currentIndex, isTyping, isComplete, typeHist>>
  /\ UNCHANGED <<vars, urlVars, debVars, appVars>>

\* the timeout runs: setDisplayedText(prev => prev + currentChar);
\* setCurrentIndex(prev => prev + 1)
TypeTimeout ==
  /\ typeTimer.on /\ typeTimer.left = 0
  /\ TypeCommit([displayedText |-> Append(displayedText, typeTimer.value),
                 currentIndex |-> currentIndex + 1,
                 isComplete |-> isComplete, isTyping |-> isTyping])
  /\ UNCHANGED typeHist

\* the effect found currentIndex >= text.length while typing:
\* setIsComplete(true); setIsTyping(false)
TypeComplete ==
  /\ isTyping /\ currentIndex >= Len(text)
  /\ TypeCommit([displayedText |-> displayedText, currentIndex |-> currentIndex,
                 isComplete |-> TRUE, isTyping |-> FALSE])
  /\ UNCHANGED typeHist

NextTypewriter ==
  \/ TypeStart
  \/ TypeReset
  \/ TypeClock
  \/ TypeTimeout
  \/ TypeComplete

SpecTypewriter == InitTypewriter /\ [][NextTypewriter]_typeVars

\* the browser runs a timeout that is due, time passes, and React renders
\* the state the effect has set
FairSpecTypewriter ==
  SpecTypewriter /\ WF_typeVars(TypeClock) /\ WF_typeVars(TypeTimeout) /\ WF_typeVars(TypeComplete)

\* ---- AppContent: search field, debounce and URL (modelled on its own) ----
NoExternal == [ext |-> FALSE, wroteBack |-> FALSE, typed |-> FALSE]

\* what a render of AppContent reads
AppSnapshot == [query |-> params.q, searchInput |-> searchInput, debouncedQuery |-> debouncedValue]

\* nothing has changed since the last commit
AppSettled == appSeen = AppSnapshot

InitApp ==
  /\ TableIdle /\ TypewriterIdle
  /\ params \in [q : QueryValues, category : {Absent}, productId : {Absent}, page : {NULL, 2}]
  /\ urlOp = [op |-> "none"]
  /\ searchInput = params.q
  /\ value = searchInput
  /\ debouncedValue = value
  /\ timer = DebounceMount(value)
  /\ stableFor = 0 /\ emitted = NotEmitted /\ inputChanges = 0
  /\ appSeen = [query |-> params.q, searchInput |-> searchInput, debouncedQuery |-> debouncedValue]
  /\ appHist = NoExternal

\* useEffect(() => { if (debouncedQuery !== query) updateQuery(debouncedQuery) },
\*           [debouncedQuery, query, updateQuery]); updateQuery is a new function in every render
UrlEffectWrites(s) == s.debouncedQuery # s.query

\* useEffect(() => { if (query !== searchInput) setSearchInput(query) }, [query])
SyncEffectWrites(seen, s) == s.query # seen.query /\ s.query # s.searchInput

\* a commit of AppContent with the effects of useDebounce and of AppContent
AppRender ==
  LET s == AppSnapshot IN
  /\ ~AppSettled
  /\ appSeen' = s
  /\ value' = s.searchInput
  /\ timer' = DebounceEffect(timer, value, s.searchInput)
  /\ stableFor' = IF value # s.searchInput THEN 0 ELSE stableFor
  /\ IF UrlEffectWrites(s)
        THEN /\ params' = updateQuery(params, s.debouncedQuery)
             /\ urlOp' = [op |-> "updateQuery", arg |-> s.debouncedQuery, before |-> params]
        ELSE UNCHANGED <<params, urlOp>>
  /\ searchInput' = IF SyncEffectWrites(appSeen, s) THEN s.query ELSE searchInput
  /\ appHist' = IF appHist.ext /\ ~appHist.typed /\ UrlEffectWrites(s)
                      /\ s.debouncedQuery = appHist.prev /\ s.query = appHist.value
                   THEN [appHist EXCEPT !.wroteBack = TRUE]
                   ELSE appHist
  /\ UNCHANGED <<debouncedValue, emitted, inputChanges>>
  /\ UNCHANGED <<vars, typeVars>>

\* handleSearchChange: setSearchInput(value)
AppType ==
  \E v \in QueryValues \ {searchInput} :
    /\ AppSettled
    /\ inputChanges < MaxInputChanges
    /\ searchInput' = v
    /\ inputChanges' = inputChanges + 1
    /\ appHist' = [appHist EXCEPT !.typed = TRUE]
    /\ UNCHANGED <<value, debouncedValue, timer, stableFor, emitted, appSeen>>
    /\ UNCHANGED <<vars, urlVars, typeVars>>

\* back, forward or an edited link: the query of the location changes
AppExternal ==
  \E v \in QueryValues \ {params.q} :
    /\ AppSettled
    /\ ~appHist.ext
    /\ params' = [params EXCEPT !.q = v]
    /\ urlOp' = [op |-> "external", arg |-> v, before |-> params]
    /\ appHist' = [ext |-> TRUE, value |-> v, prev |-> params.q,
                    wroteBack |-> FALSE, typed |-> FALSE]
    /\ UNCHANGED <<searchInput, appSeen, debVars>>
    /\ UNCHANGED <<vars, typeVars>>

AppClock ==
  /\ AppSettled
  /\ DebounceClock
  /\ UNCHANGED <<value, debouncedValue, emitted, inputChanges>>
  /\ UNCHANGED <<vars, urlVars, appVars, typeVars>>

AppTimeout ==
  /\ AppSettled
  /\ DebounceTimeout
  /\ UNCHANGED <<value, stableFor, inputChanges>>
  /\ UNCHANGED <<vars, urlVars, appVars, typeVars>>

NextApp ==
  \/ AppRender
  \/ AppType
  \/ AppExternal
  \/ AppClock
  \/ AppTimeout

SpecApp == InitApp /\ [][NextApp]_<<urlVars, debVars, appVars>>

TypeOK ==
  /\ filter \in Filters
  /\ urlPage \in Nat
  /\ \A f \in Filters : orphans[f] \in Nat

\* ---- properties ----
ScrollsOf(log) == {log[i] : i \in Events(log, "scroll")}

NoScrollPending == \A i \in 1..Len(raf) : raf[i].kind # "scroll"

\* nothing but successful page loads of the mount's own filter set has happened
Undisturbed == hist.fails = 0 /\ hist.filterChanges = 0 /\ hist.sourceChanges = 0 /\ hist.aborts = 0

\* C1: for each filter set at most one next-page request is in flight at any
\* instant, whatever the order of scrolls, restoration steps, completions and failures
C1_SingleFetchInFlight == \A f \in Filters : NextRequestsInFlight(f) <= 1

\* C2: an active restoration is never stalled: it has used at most
\* MAX_RESTORATION_ATTEMPTS attempts and, once React has rendered everything, a page
\* load is pending whose completion drives it on to Done
C2_RestorationReachesDone ==
  isRestoringFromURLRef =>
    /\ restorationAttemptsRef <= MAX_RESTORATION_ATTEMPTS
    /\ Settled => cache[filter].fetch = "next"

\* C3: every scrollToIndex the restoration schedules has an index i with
\* 0 <= i <= loaded items - 1, and none is scheduled when nothing is loaded
C3_ScrollIndexInRange ==
  \A e \in ScrollsOf(lastCommit) :
    rendered.len > 0 /\ 0 <= e.index /\ e.index <= rendered.len - 1

\* a scroll was scheduled whose stored target lay beyond the loaded items
C3_Witness ==
  \E e \in ScrollsOf(lastCommit) : e.index = rendered.len - 1 /\ hist.target > rendered.len - 1

\* C4: after the filter set has changed, the restoration of the previous filter
\* set is Done at once: the flag is not set, and no restoration scroll or fetch is
\* made on the new filter set's collection for the old target
C4_FilterChangeEndsRestoration ==
  /\ (rendered # NoRender /\ isRestoringFromURLRef) => rendered.filter = hist.restoreFilter
  /\ (Has(lastCommit, "scroll") \/ HasBy(lastCommit, "fetch", "restore"))
        => rendered.filter = hist.restoreFilter

\* the index the restoration is to scroll to for a requested page and a total
ExpectedIndex(page, total) ==
  Min((Min(page, Ceil(total, ITEMS_PER_PAGE)) - 1) * ITEMS_PER_PAGE + URL_RESTORE_MIDDLE_OFFSET,
      total - 1)

\* C5: with a constant total > 0 and no failure, filter change or exhausted
\* budget, the restoration scrolls to min((targetPage - 1) * pageSize + 15, total - 1)
C5_ScrollsToClampedIndex ==
  (Undisturbed /\ hist.initPage > 1 /\ srcTotal[1] > 0) =>
    \A e \in ScrollsOf(lastCommit) : e.index = ExpectedIndex(hist.initPage, srcTotal[1])

\* C6: mounted with page > 1, once the restoration is over with a non-empty
\* collection (budget not exhausted), exactly one scrollToIndex has been issued
C6_ExactlyOneScroll ==
  (Undisturbed /\ hist.initPage > 1 /\ rendered # NoRender /\ rendered.hasData
     /\ rendered.len > 0 /\ ~isRestoringFromURLRef)
    => hist.scrolls = 1

\* C7: when the attempt counter exceeds MAX_RESTORATION_ATTEMPTS the restoration
\* ends without a scroll, and no scroll is scheduled or run for it afterwards
C7_AbortNeverScrolls ==
  /\ Has(lastCommit, "abort") =>
        ~Has(lastCommit, "scroll") /\ targetScrollIndexRef = NULL /\ ~isRestoringFromURLRef
  /\ (hist.aborts > 0 /\ hist.activationsSinceAbort = 0) =>
        hist.scrollsSinceAbort = 0 /\ NoScrollPending /\ ~hist.movedSinceAbort

\* the restoration was aborted and the table has gone on since (URL page rewritten)
C7_Witness ==
  /\ hist.aborts > 0 /\ hist.activationsSinceAbort = 0
  /\ Settled /\ ~Has(lastCommit, "abort") /\ urlPage = rendered.pageCount

\* C8: within one mount a restoration target is created at most once
C8_RestorationAtMostOnce == hist.activations <= 1

\* C9: the restoration requests a page only when loadedPageCount < targetPage,
\* hasMore and nothing is in flight; it finalizes only when
\* loadedPageCount >= targetPage or hasMore is false
C9_RequestAndFinalizeGuards ==
  /\ HasBy(lastCommit, "fetch", "restore") =>
        rendered.pageCount < targetPageOf(rendered) /\ rendered.hasNextPage /\ ~hist.busyAtCommit
  /\ Has(lastCommit, "finalize") =>
        rendered.pageCount >= targetPageOf(rendered) \/ ~rendered.hasNextPage

\* C10: after a next-page fetch has failed no fetch is issued by an effect
\* until the user has used the retry of the error state
C10_NoAutomaticRefetch == ~hist.autoRefetch

\* items of the pages of a collection that were fetched for filter set f
RECURSIVE ItemsOf(_, _)
ItemsOf(pages, f) ==
  IF pages = <<>> THEN 0
  ELSE (IF pages[1].of = f THEN pages[1].n ELSE 0) + ItemsOf(Tail(pages), f)

\* C11: a page fetched under filter set F is never appended to the collection of
\* another filter set, even when it arrives after a switch; the collection the
\* table uses after a switch consists of pages of the current filter set only
C11_ResultsKeyedByFilter ==
  /\ \A f \in Filters : \A k \in 1..Len(cache[f].pages) : cache[f].pages[k].of = f
  /\ (Settled /\ rendered.hasData) =>
        /\ rendered.len = ItemsOf(cache[filter].pages, filter)
        /\ rendered.isFetchingNextPage = (cache[filter].fetch = "next")
        /\ rendered.hasNextPage = (rendered.pageCount * ITEMS_PER_PAGE < rendered.lastTotal)

\* a response arrived for a filter set that was no longer on display, and the
\* table shows the loaded collection of the filter set it switched to
C11_Witness ==
  /\ hist.lateResolved /\ Settled /\ rendered.hasData /\ rendered.len > 0
  /\ \E f \in Filters : f # filter /\ cache[f].loaded /\ Len(cache[f].pages) > 1

\* C12: for one filter set and one page offset the restoration effect and the
\* threshold effect together send at most one request, unless the earlier
\* request for that offset has failed (checked on runs in which no request fails)
C12_NoDuplicateRequests ==
  hist.fails = 0 => (Count(lastCommit, "fetch") <= 1 /\ ~hist.rerequest)

\* C13: however often the threshold rule is evaluated with the same rendered
\* range, loaded count and hasMore, it issues at most one fetch in total
C13_ThresholdIdempotent == hist.thresholdFetches <= 1

\* the threshold rule as claimed, on the values of the last commit
ThresholdWanted ==
  /\ rendered.last # NULL /\ rendered.last >= rendered.len - FETCH_THRESHOLD
  /\ rendered.hasNextPage
  /\ ~hist.busyAtCommit /\ ~HasBy(lastCommit, "fetch", "restore")

\* C14: when the threshold rule is evaluated it requests the next page exactly
\* when no fetch is in flight, hasMore is true and the last rendered index is
\* >= loaded count - FETCH_THRESHOLD
C14_ThresholdRule ==
  hist.thresholdRan => (HasBy(lastCommit, "fetch", "threshold") <=> ThresholdWanted)

\* C15: with pageSize 30, a total of 95 and requested page 10 the restoration
\* never requests a page once 4 pages are loaded, and when 4 pages (95 items)
\* are loaded it issues its only scroll, to index 94
C15_PartialLastPage ==
  (Undisturbed /\ hist.initPage = 10 /\ srcTotal[1] = 95 /\ rendered # NoRender) =>
    /\ \A e \in ScrollsOf(lastCommit) :
          e.index = 94 /\ rendered.pageCount = 4 /\ rendered.len = 95
    /\ HasBy(lastCommit, "fetch", "restore") => rendered.pageCount < 4
    /\ rendered.pageCount <= 4
    /\ hist.scrolls = (IF rendered.pageCount = 4 THEN 1 ELSE 0)

\* the fourth page has arrived and the scroll to index 94 has been scheduled
C15_Witness ==
  /\ Undisturbed /\ hist.initPage = 10 /\ srcTotal[1] = 95 /\ rendered # NoRender
  /\ rendered.pageCount = 4 /\ hist.scrolls = 1 /\ hist.activations = 1
  /\ \E e \in ScrollsOf(lastCommit) : e.index = 94

\* C16: with requested page 5 and a first response whose total is 0, hasMore
\* is false at once, no further page is requested, no scroll is issued and the
\* restoration is inactive
C16_EmptyResult ==
  (Undisturbed /\ hist.initPage = 5 /\ srcTotal[1] = 0 /\ rendered # NoRender /\ rendered.hasData) =>
    /\ ~rendered.hasNextPage /\ rendered.pageCount = 1 /\ rendered.len = 0
    /\ ~Has(lastCommit, "fetch") /\ cache[filter].fetch = "idle"
    /\ hist.scrolls = 0 /\ raf = <<>>
    /\ ~isRestoringFromURLRef /\ targetScrollIndexRef = NULL

\* the empty first response has been rendered and nothing is left to do
C16_Witness ==
  /\ Undisturbed /\ hist.initPage = 5 /\ srcTotal[1] = 0
  /\ Settled /\ rendered.hasData /\ rendered.len = 0 /\ ~rendered.mounted

\* C17: when the requested page exceeds the pages that exist, the restoration
\* scrolls to the last available item, index total - 1
C17_ScrollsToLastItem ==
  (Undisturbed /\ srcTotal[1] > 0 /\ hist.initPage > Ceil(srcTotal[1], ITEMS_PER_PAGE)) =>
    \A e \in ScrollsOf(lastCommit) : e.index = srcTotal[1] - 1

\* C18: while a restoration is active its target page and target index are
\* those computed from the total reported by the most recently received page
C18_LatestTotalDecides ==
  (isRestoringFromURLRef /\ rendered # NoRender /\ rendered.hasData /\ rendered.lastTotal > 0
     /\ hist.fails = 0 /\ hist.filterChanges = 0) =>
    /\ targetScrollIndexRef = ExpectedIndex(rendered.urlPage, rendered.lastTotal)
    /\ HasBy(lastCommit, "fetch", "restore") =>
          rendered.pageCount < Min(rendered.urlPage, Ceil(rendered.lastTotal, ITEMS_PER_PAGE))

\* the k-th page of every loaded collection is the page at offset (k - 1) * pageSize
PagesInOrder ==
  \A f \in Filters : \A k \in 1..Len(cache[f].pages) :
    cache[f].pages[k].skip = (k - 1) * ITEMS_PER_PAGE

C20_RestoredExactly ==
  (hist.openedAt > 0 /\ hist.restoredTo # NULL) => hist.restoredTo = hist.openedAt

\* the drawer is closed and the callback of its last closing has run
RestorePerformed ==
  /\ productId = 0
  /\ hist.restoresSinceSave > 0
  /\ \A i \in 1..Len(raf) : raf[i].kind # "offset"

OffsetCallbacks(cbs) == {i \in 1..Len(cbs) : cbs[i].kind = "offset"}

\* C22: while the drawer is closed and the saved offset is 0 (the drawer was
\* opened at offset 0, or never) no step registers a callback that writes the
\* viewport offset
C22_ZeroSnapshotWritesNothing ==
  [][(productId = 0 /\ scrollOffsetRef = 0) =>
       Cardinality(OffsetCallbacks(raf')) <= Cardinality(OffsetCallbacks(raf))]_vars

\* the drawer was opened at offset 0 and its closing has been committed
C22_Witness ==
  /\ hist.opens > 0 /\ productId = 0 /\ scrollOffsetRef = 0
  /\ rendered # NoRender /\ rendered.productId = 0 /\ rendered.mounted

\* the restoration (or its fallback) has a scrollToIndex callback registered
ScrollCallbackPending == \E i \in 1..Len(raf) : raf[i].kind = "scroll"

\* C23: the callbacks of one animation frame never hold both a restoration
\* scroll and the drawer's offset restore
C23_NoSharedFrame == ~(ScrollCallbackPending /\ OffsetCallbacks(raf) # {})

\* the indexes getVirtualItems() hands to the row renderer in the commit of S
VirtualIndexes(S) == IF S.first = NULL \/ S.last = NULL THEN {} ELSE S.first..S.last

C25_NoRestorationFromPageOne ==
  hist.initPage = 1 =>
    /\ hist.activations = 0
    /\ hist.scrolls = 0
    /\ ~isRestoringFromURLRef
    /\ ~HasBy(lastCommit, "fetch", "restore")

\* data.pages.flatMap(page => page.products): an item is named by its position
\* in the collection of the Page Source
RECURSIVE FlatItems(_)
FlatItems(pages) ==
  IF pages = <<>> THEN <<>>
  ELSE [j \in 1..pages[1].n |-> pages[1].skip + j - 1] \o FlatItems(Tail(pages))

IsPrefix(a, b) == Len(a) <= Len(b) /\ SubSeq(b, 1, Len(a)) = a

\* C26: in every step the items loaded for a filter set before the step are a
\* prefix, in the same order, of the items loaded for it after the step, and
\* no page is taken away
C26_AppendOnly ==
  [][\A f \in Filters :
       /\ IsPrefix(FlatItems(cache[f].pages), FlatItems(cache'[f].pages))
       /\ Len(cache[f].pages) <= Len(cache'[f].pages)]_vars

MaxPages(total) == Max(1, Ceil(total, ITEMS_PER_PAGE))

\* C28: for every loaded collection hasNextPage is true exactly when the number
\* of loaded pages times the page size is below the total of the last page;
\* while the total has not changed no more than max(1, ceil(total / pageSize))
\* pages are loaded
C28_HasMoreAndPageBound ==
  \A f \in Filters :
    (cache[f].loaded /\ Len(cache[f].pages) > 0) =>
      /\ hasNextPage(cache[f]) <=>
           Len(cache[f].pages) * ITEMS_PER_PAGE < cache[f].pages[Len(cache[f].pages)].total
      /\ hist.sourceChanges = 0 => Len(cache[f].pages) <= MaxPages(srcTotal[f])

\* every page of a collection of several pages is loaded and the threshold
\* effect has run on the last rows without anything left to fetch
C28_Witness ==
  /\ Settled /\ rendered.mounted /\ ~rendered.hasNextPage /\ hist.thresholdRan
  /\ rendered.pageCount = MaxPages(srcTotal[filter]) /\ rendered.pageCount >= 3
  /\ rendered.last = rendered.len - 1 /\ cache[filter].fetch = "idle"

\* C29: a commit in which the table rewrites the URL page leaves the
\* restoration inactive; once every update is rendered, with the restoration
\* inactive and at least one page loaded, the URL page is the loaded page count
C29_UrlPageFollowsPageCount ==
  /\ Has(lastCommit, "page") => ~isRestoringFromURLRef
  /\ (Settled /\ ~isRestoringFromURLRef /\ rendered.hasData /\ rendered.pageCount > 0) =>
        urlPage = rendered.pageCount

\* C30: a commit that shows the first page loading requests no page; a commit
\* with URL page 1 (or of a mount that started on page 1 and never changed the
\* filter set) requests a page only when the last index of the rendered range
\* has reached the number of loaded items minus 5
C30_NoFetchBeforeThreshold ==
  rendered # NoRender =>
    /\ rendered.isLoading => ~Has(lastCommit, "fetch")
    /\ (rendered.urlPage = 1 \/ (hist.initPage = 1 /\ hist.filterChanges = 0)) =>
         (Has(lastCommit, "fetch") =>
            /\ rendered.last # NULL
            /\ rendered.last >= rendered.len - FETCH_THRESHOLD
            /\ ~HasBy(lastCommit, "fetch", "restore"))

\* the first page was loaded without a further request, and scrolling to the
\* last rows has made the table request the second page
C30_Witness ==
  /\ rendered # NoRender /\ rendered.urlPage = 1 /\ hist.initPage = 1
  /\ rendered.pageCount = 1 /\ rendered.len = ITEMS_PER_PAGE
  /\ HasBy(lastCommit, "fetch", "threshold") /\ scrollTop > 0

\* C31: the virtual count is the number of loaded items plus 1 when there is a
\* next page and the number of loaded items otherwise; among the rendered
\* indexes the loader row is rendered at the index equal to the number of
\* loaded items only, and only when there is a next page
C31_LoaderRowSlot ==
  rendered # NoRender =>
    /\ rendered.count = rendered.len + (IF rendered.hasNextPage THEN 1 ELSE 0)
    /\ \A i \in VirtualIndexes(rendered) :
         /\ isLoaderRow(i, rendered.len) => (i = rendered.len /\ rendered.hasNextPage)
         /\ ~isLoaderRow(i, rendered.len) => (0 <= i /\ i < rendered.len)

\* the list is scrolled to its end while a next page exists: the loader row is rendered
C31_Witness ==
  /\ rendered # NoRender /\ rendered.mounted /\ rendered.hasNextPage
  /\ rendered.len \in VirtualIndexes(rendered) /\ rendered.len - 1 \in VirtualIndexes(rendered)

\* a mount whose URL asks for a page beyond MAX_RESTORATION_ATTEMPTS + 1 that
\* exists, with no failure, no filter change and no change of the collection
LongRestoration ==
  /\ hist.fails = 0 /\ hist.filterChanges = 0 /\ hist.sourceChanges = 0
  /\ hist.initPage > MAX_RESTORATION_ATTEMPTS + 1
  /\ Ceil(srcTotal[1], ITEMS_PER_PAGE) >= hist.initPage

\* C36: the restoration effect has requested at most MAX_RESTORATION_ATTEMPTS
\* pages since the restoration was activated, failed requests included; a
\* restoration towards a page beyond MAX_RESTORATION_ATTEMPTS + 1 that exists
\* is ended with MAX_RESTORATION_ATTEMPTS + 1 pages loaded and never scrolls
C36_AttemptBudget ==
  /\ hist.restoreFetches <= MAX_RESTORATION_ATTEMPTS
  /\ LongRestoration =>
       /\ hist.scrolls = 0 /\ NoScrollPending
       /\ Has(lastCommit, "abort") => rendered.pageCount = MAX_RESTORATION_ATTEMPTS + 1
       /\ hist.aborts <= 1
       /\ hist.aborts = 1 => (~isRestoringFromURLRef /\ rendered.pageCount >= MAX_RESTORATION_ATTEMPTS + 1)

\* the restoration towards page 13 has been ended by the safety valve
C36_Witness ==
  /\ LongRestoration /\ hist.aborts = 1 /\ Settled
  /\ rendered.pageCount = MAX_RESTORATION_ATTEMPTS + 1 /\ cache[filter].fetch = "idle"

\* C37: since the restoration was last activated the restoration effect and
\* the fallback effect together have scheduled at most one scrollToIndex, and
\* no commit schedules two
C37_OneScrollPerRestoration ==
  /\ hist.scrollsSinceActivation <= 1
  /\ Count(lastCommit, "scroll") <= 1

\* the restoration effect has finalized and scheduled its scroll in a commit in
\* which the fallback effect ran as well
C37_Witness ==
  /\ HasBy(lastCommit, "scroll", "restore") /\ hist.scrollsSinceActivation = 1
  /\ hist.activations = 1 /\ rendered.pageCount >= 3

\* C38: when the callbacks of a frame are about to run on the rendered list,
\* the index of every restoration scroll among them is below the virtual count
\* and the list on display is that of the filter set that scheduled it
C38_ScrollStillValid ==
  (Settled /\ rendered.mounted) =>
    \A i \in 1..Len(raf) :
      raf[i].kind = "scroll" => (raf[i].index < rendered.count /\ raf[i].filter = rendered.filter)

\* const page = searchParams.get("page") ? parseInt(...) : 1
pageOf(ps) == IF ps.page = NULL THEN 1 ELSE ps.page

EmittedAfterFullDelay ==
  emitted.some => (emitted.value = emitted.input /\ emitted.stable >= DEBOUNCE_DELAY)

\* the output differs from the input only while a timeout for the input waits
OutputBehindOnlyWhileWaiting ==
  debouncedValue # value => (timer.on /\ timer.value = value)

\* C34: the output of useDebounce changes to v only after the input has been
\* v for the full delay, an input replaced within the delay is never emitted,
\* and once the input stops changing the output eventually equals it
C34_Debounce ==
  /\ [](EmittedAfterFullDelay /\ OutputBehindOnlyWhileWaiting)
  /\ <>[](debouncedValue = value)

\* an input was replaced within the delay and the later one was emitted
C34_Witness ==
  /\ emitted.some /\ emitted.value # emitted.was /\ inputChanges >= 2
  /\ debouncedValue = value /\ ~timer.on

\* text.slice(0, n)
Prefix(txt, n) == SubSeq(txt, 1, n)

\* C39: displayedText is the prefix of text of length currentIndex, and
\* isTyping and isComplete are never both true
C39_PrefixAndFlags ==
  /\ currentIndex <= Len(text)
  /\ displayedText = Prefix(text, currentIndex)
  /\ ~(isTyping /\ isComplete)

\* a second start() arrived while the text was half revealed
C39_Witness ==
  /\ typeHist.starts = 2 /\ isTyping /\ Len(text) > 2
  /\ currentIndex > 0 /\ currentIndex < Len(text)

TypingDone == isComplete /\ ~isTyping /\ displayedText = text

\* a step that makes the displayed text longer appends the next character of text
RevealsNextCharacter ==
  Len(displayedText') > Len(displayedText) =>
    displayedText' = Append(displayedText, text[Len(displayedText) + 1])

\* C35: after start() the characters of text are revealed one at a time in
\* order, and (unless reset() is called) the hook reaches isComplete = TRUE,
\* isTyping = FALSE and displayedText = text; for the empty text no timeout
\* is waited for
C35_TypesToCompletion ==
  /\ [][RevealsNextCharacter]_typeVars
  /\ []((text = <<>> /\ isTyping) => ~typeTimer.on)
  /\ (typeHist.call = "start") ~> (TypingDone \/ typeHist.call = "reset")

\* a text with punctuation was typed to its end
C35_Witness ==
  /\ typeHist.call = "start" /\ TypingDone /\ Len(text) > 2

\* nothing is left to render and no timeout is pending
AppAtRest == AppSettled /\ ~timer.on

\* C33: after the query of the URL was changed from outside, the value it
\* had before is never written back to the URL, and when the app comes to
\* rest the search field, the debounced query and the URL query all are the
\* value set from outside (as long as the user types nothing)
C33_ExternalQueryWins ==
  (appHist.ext /\ ~appHist.typed) =>
    /\ ~appHist.wroteBack
    /\ AppAtRest => (params.q = appHist.value /\ searchInput = appHist.value
                        /\ debouncedValue = appHist.value)

====
